---- MODULE Spec2Model ----
(***************************************************************************)
(* Model of github.com/lireza/lib.                                         *)
(* Package concurrent/executor: RoundRobinExecutor, a pool of nThreads     *)
(* worker goroutines, each with a buffered channel of runners and an       *)
(* unbuffered shutdown channel, fed in round robin order under one mutex.  *)
(* Package concurrent: the runners Task and Callable and their channels.   *)
(* Package logging: the Logger and its level filter.                       *)
(* Package configuring: Config.Get over the environment, the command line  *)
(* flags and a JSON file.                                                  *)
(***************************************************************************)
EXTENDS Integers, Sequences, FiniteSets, TLC

\* ---------------------------------------------------------------- bounds
MaxThreads == 2
MaxQueueSize == 2
MaxCalls == 3
MaxSubmits == 4
MaxPublishes == 3
MaxLogCalls == 2
MaxArgs == 2

\* A call is one invocation of Execute or Shutdown by some goroutine outside the
\* pool.  Calls are numbered in the order they are issued; any number of them may
\* be in progress at once.  The runner handed to Execute call k is runner k.
Calls == 1..MaxCalls

\* In the runs where Shutdown is never called (SpecSubmit) the pool is given
\* MaxSubmits calls of Execute.
Submits == 1..MaxSubmits

VARIABLES
  newArgs,           \* <<nThreads, threadQueueSize>> as passed to NewRoundRobinExecutor
  newErr,            \* the error NewRoundRobinExecutor returned: "nil", the message of
                     \*   the error, or "pending" while it has not returned
  nThreads,          \* the number of workers of the pool (0 = there is no pool)
  threadQueueSize,   \* the capacity of each worker's channel of runners
  mutex,             \* e.mutex: the set of calls holding it (empty = unlocked)
  ids,               \* e.ids: the Value of the ring element the cursor points at
  channels,          \* e.channels: id -> buffered channel content, oldest first
  wg,                \* e.wg: the WaitGroup counter
  wpc,               \* worker goroutine position: "select", "run", "exiting", "stopped"
  cur,               \* the runner a worker took from its channel (0 = none)
  nextCall,          \* number of calls issued so far, plus one
  kind,              \* per call: "Execute", "Shutdown", or "none" when not issued
  caller,            \* per call: the goroutine that made it: 0 = one outside the pool,
                     \*   w = worker w, from inside the Run of the runner it is running
  pc,                \* per call: position inside Execute / Shutdown
  id,                \* per call: the local variable id of Execute (0 = not read)
  rest,              \* per call: shutdown channels the range loop has not reached
  target,            \* per call: shutdown channel the range loop is sending to
  enqLog,            \* history: <<runner, worker>> of every channel send, in order
  ran,               \* history: per worker, the runners whose Run has returned, in order
  retAt,             \* history: per Shutdown call, the Execute calls that had returned
                     \*   when it was issued
  quiet,             \* history: the Shutdown calls issued when every runner submitted
                     \*   so far had been run
  late,              \* history: the Execute calls issued after a Shutdown call returned
  overlap,           \* history: some Execute call was issued while another was in progress
  panics,            \* the calls whose runner's function panics when it is run
  crashed,           \* the program has been terminated by a panic no goroutine recovered
  made,              \* package concurrent, per kind of runner: the struct NewTask /
                     \*   NewCallable built (channel r = 0 before it is called)
  handle,            \* per kind of runner: the channel NewTask / NewCallable returned
                     \*   to its caller (0 = none yet)
  chans,             \* the channels made so far, in order of make: capacity and content
  frame,             \* per kind of runner: the activation of Run and of the function it
                     \*   calls: position, the arguments the function was given, and
                     \*   the number of values it has published
  doLog,             \* history: every invocation of a runner's function
  got,               \* history: per kind of runner, the values read from its handle
  logger,            \* package logging: the Logger made (made, level, specifier given)
  logCalls,          \* history: the methods called on the Logger, in order
  logOut,            \* the lines written to os.Stdout: the level of the log.Logger used
  environ,           \* package configuring: the environment, name -> value
  flagSet,           \* flag.CommandLine: name -> the flag's Value, and whether Parse set it
  osArgs,            \* os.Args, the program name first
  config,            \* the *Config that New() returned: content and node
  lookup             \* the last Get(key) made on it and what its accessors returned

vars == <<newArgs, newErr, nThreads, threadQueueSize, mutex, ids, channels, wg, wpc, cur, nextCall,
          kind, caller, pc, id, rest, target, enqLog, ran, retAt, quiet, late, overlap,
          panics, crashed, made, handle, chans, frame, doLog, got,
          logger, logCalls, logOut, environ, flagSet, osArgs, config, lookup>>

\* fixed once the constructor has returned
poolVars == <<newArgs, newErr, nThreads, threadQueueSize>>
faultVars == <<panics, crashed>>
taskVars == <<made, handle, chans, frame, doLog, got>>
\* the packages beside the executor
loggerVars == <<logger, logCalls, logOut>>
configVars == <<environ, flagSet, osArgs, config, lookup>>
libVars == <<taskVars, loggerVars, configVars>>
callVars == <<nextCall, kind, caller, id, rest, target, retAt, quiet, late, overlap>>

Workers == 1..nThreads

\* ---------------------------------------------------------------- container/ring
\* mutant of RingNext: the cursor is never advanced
RingNextStuck(v, n) == v

\* ids.Next(): the ring holds 1..n in order, the element after n is 1.
RingNext(v, n) == (v % n) + 1

RECURSIVE RingFill(_, _, _)
\* the loop "for i := 1; i <= nThreads; i++ { ids.Value = i; ids = ids.Next() }":
\* after n steps the cursor is back on the element that was given Value 1.
RingFill(pos, i, n) == IF i > n THEN pos ELSE RingFill(RingNext(pos, n), i + 1, n)

RingNew(n) == RingFill(1, 1, n)

\* ---------------------------------------------------------------- sync.Mutex
\* mutant of MutexLock: the lock excludes nobody
MutexLockNoExclusion(k) == mutex' = mutex \cup {k}

MutexLock(k) == mutex = {} /\ mutex' = {k}

MutexUnlock(k) == mutex' = mutex \ {k}

\* ---------------------------------------------------------------- derived history
Issued == 1..(nextCall - 1)

Executes == {k \in Issued : kind[k] = "Execute"}

Shutdowns == {k \in Issued : kind[k] = "Shutdown"}

Returned == {k \in Issued : pc[k] = "returned"}

\* how many times runner r has been run to completion, over all workers
RunCount(r) ==
  Cardinality({p \in Workers \X DOMAIN kind : p[2] <= Len(ran[p[1]]) /\ ran[p[1]][p[2]] = r})

Completed == {r \in Executes : RunCount(r) > 0}

\* the runners that have been taken from worker w's channel, in order
Started(w) == IF cur[w] = 0 THEN ran[w] ELSE Append(ran[w], cur[w])

\* the runners sent to worker w's channel, in order
RECURSIVE SentTo(_, _)
SentTo(w, log) ==
  IF log = <<>> THEN <<>>
  ELSE IF Head(log)[2] = w THEN <<Head(log)[1]>> \o SentTo(w, Tail(log))
  ELSE SentTo(w, Tail(log))

\* ---------------------------------------------------------------- package concurrent
\* the two kinds of runner of the package
Runners == {"Task", "Callable"}

\* what a runner's function may publish: a Task any value, a Callable an error
Published(r) == IF r = "Task" THEN {"a", "b"} ELSE {"nil", "failed"}

\* the arguments a Task may be given; a Callable has none
Args(r) == IF r = "Task" THEN {"x", "y"} ELSE {"none"}

\* A function handed to NewTask / NewCallable is known by what it does with the
\* channel it is given: it publishes the value v on it n times and returns.
Functions(r) == [v : Published(r), n : 0..MaxPublishes]

\* the package is not used
TaskUnused ==
  /\ made = <<>>
  /\ handle = <<>>
  /\ chans = <<>>
  /\ frame = <<>>
  /\ doLog = <<>>
  /\ got = <<>>

\* the package is used and no runner has been made
TaskStart ==
  /\ made = [r \in Runners |-> [do |-> [v |-> "none", n |-> 0], arg |-> "none", r |-> 0]]
  /\ handle = [r \in Runners |-> 0]
  /\ chans = <<>>
  /\ frame = [r \in Runners |-> [pc |-> "idle", arg |-> "none", ch |-> 0, sent |-> 0]]
  /\ doLog = <<>>
  /\ got = [r \in Runners |-> <<>>]

\* ---------------------------------------------------------------- package logging
TRACE == 0
DEBUG == 1
INFO == 2
WARN == 3
ERROR == 4

\* the level specifiers tried: every one asLevel knows, and some it does not
Specifiers ==
  {"TRACE", "trace", "DEBUG", "debug", "INFO", "info", "WARNING", "WARN", "warning", "warn",
   "ERROR", "error", "Debug", "verbose", ""}

asLevel(specifier) ==
  CASE specifier \in {"TRACE", "trace"} -> TRACE
    [] specifier \in {"DEBUG", "debug"} -> DEBUG
    [] specifier \in {"INFO", "info"} -> INFO
    [] specifier \in {"WARNING", "WARN", "warning", "warn"} -> WARN
    [] specifier \in {"ERROR", "error"} -> ERROR
    [] OTHER -> INFO

\* the package is not used
LoggerUnused ==
  /\ logger = <<>>
  /\ logCalls = <<>>
  /\ logOut = <<>>

\* the package is used and no Logger has been made
LoggerStart ==
  /\ logger = [made |-> FALSE, level |-> INFO, specifier |-> "none"]
  /\ logCalls = <<>>
  /\ logOut = <<>>

\* ---------------------------------------------------------------- package configuring
\* A Go string is the sequence of its characters.
\* strings.ToUpper on one character
ToUpper(ch) ==
  CASE ch = "a" -> "A"
    [] ch = "b" -> "B"
    [] ch = "d" -> "D"
    [] ch = "e" -> "E"
    [] ch = "j" -> "J"
    [] ch = "k" -> "K"
    [] ch = "p" -> "P"
    [] ch = "v" -> "V"
    [] OTHER -> ch

\* strings.ReplaceAll(key, ".", "_") on one character
ReplaceDot(ch) == IF ch = "." THEN "_" ELSE ch

\* strings.ToUpper(strings.ReplaceAll(key, ".", "_"))
asEnv(key) == [i \in 1..Len(key) |-> ToUpper(ReplaceDot(key[i]))]

\* strings.ReplaceAll(key, ".", "_")
asArg(key) == [i \in 1..Len(key) |-> ReplaceDot(key[i])]

\* strings.Split(key, ".")
RECURSIVE split(_)
split(key) ==
  IF \A i \in 1..Len(key) : key[i] # "." THEN <<key>>
  ELSE LET i == CHOOSE i \in 1..Len(key) : key[i] = "." /\ \A j \in 1..(i - 1) : key[j] # "."
       IN  <<SubSeq(key, 1, i - 1)>> \o split(SubSeq(key, i + 1, Len(key)))

\* the values of interface{} that json.Unmarshal and Get produce
Nil == [type |-> "nil"]
Str(v) == [type |-> "string", v |-> v]
Obj(m) == [type |-> "object", m |-> m]

\* make(map[string]interface{})
EmptyMap == [n \in {} |-> Nil]

\* the keys looked up
Keys ==
  {<<"a">>, <<"a", ".", "a">>, <<"a", "_", "a">>, <<"a", ".", "b">>, <<"b">>, <<"a", ".">>}

\* the environments the program may be started in: nothing set, A_A set, or
\* only the lower case name a_a set
Environments ==
  {EmptyMap,
   [n \in {<<"A", "_", "A">>} |-> <<"e">>],
   [n \in {<<"a", "_", "a">>} |-> <<"e">>]}

\* the flags the program may have defined before New(): none, or
\* flag.String("a_a", "d", "")
FlagSets ==
  {EmptyMap,
   [n \in {<<"a", "_", "a">>} |-> [value |-> <<"d">>, set |-> FALSE]]}

\* the command line elements after the program name: -a_a, --a_a, -a_a=v, v
ArgElements ==
  {<<"-", "a", "_", "a">>, <<"-", "-", "a", "_", "a">>, <<"-", "a", "_", "a", "=", "v">>, <<"v">>}

ArgLists == UNION {[1..n -> ArgElements] : n \in 0..MaxArgs}

\* the JSON files loaded: {"a": {"a": "j"}}, {"a_a": "j", "a": "k"}, {"a": {"a": null}}
Documents ==
  {[n \in {<<"a">>} |-> Obj([m \in {<<"a">>} |-> Str(<<"j">>)])],
   [n \in {<<"a", "_", "a">>, <<"a">>} |-> IF n = <<"a">> THEN Str(<<"k">>) ELSE Str(<<"j">>)],
   [n \in {<<"a">>} |-> Obj([m \in {<<"a">>} |-> Nil])]}

\* the position of the first "=" of a flag's text after its first character,
\* 0 when there is none
EqualsAt(name) ==
  IF \E i \in 2..Len(name) : name[i] = "="
    THEN CHOOSE i \in 2..Len(name) : name[i] = "=" /\ \A j \in 2..(i - 1) : name[j] # "="
    ELSE 0

\* flag.Parse(): FlagSet.parseOne applied until it stops.  Every flag defined is a
\* string flag.  The result is the flags with their values set, or an error (on
\* which flag.CommandLine, being ExitOnError, ends the program).
RECURSIVE FlagParse(_, _)
FlagParse(args, formal) ==
  IF args = <<>> THEN [err |-> FALSE, formal |-> formal]
  ELSE LET s == Head(args)
           minuses == IF Len(s) >= 2 /\ s[2] = "-" THEN 2 ELSE 1
           text == SubSeq(s, minuses + 1, Len(s))
           at == EqualsAt(text)
           name == IF at = 0 THEN text ELSE SubSeq(text, 1, at - 1)
       IN  IF Len(s) < 2 \/ s[1] # "-" THEN [err |-> FALSE, formal |-> formal]
           ELSE IF s = <<"-", "-">> THEN [err |-> FALSE, formal |-> formal]
           ELSE IF text = <<>> \/ text[1] = "-" \/ text[1] = "=" THEN [err |-> TRUE, formal |-> formal]
           ELSE IF name \notin DOMAIN formal THEN [err |-> TRUE, formal |-> formal]
           ELSE IF at # 0
             THEN FlagParse(Tail(args),
                    [formal EXCEPT ![name] = [value |-> SubSeq(text, at + 1, Len(text)), set |-> TRUE]])
           ELSE IF Len(args) > 1
             THEN FlagParse(Tail(Tail(args)),
                    [formal EXCEPT ![name] = [value |-> args[2], set |-> TRUE]])
           ELSE [err |-> TRUE, formal |-> formal]

\* the package is not used
ConfigUnused ==
  /\ environ = <<>>
  /\ flagSet = <<>>
  /\ osArgs = <<>>
  /\ config = <<>>
  /\ lookup = <<>>

\* the other packages are not used
LibUnused == TaskUnused /\ LoggerUnused /\ ConfigUnused

\* ---------------------------------------------------------------- construction
\* mutant of Pool: the filling loop leaves the cursor one element too far
PoolCursorOff(n, q) ==
  [nThreads |-> n, threadQueueSize |-> q, mutex |-> {},
   ids |-> RingNext(RingNew(n), n),
   channels |-> [w \in 1..n |-> <<>>],
   wg |-> n,
   wpc |-> [w \in 1..n |-> "select"],
   cur |-> [w \in 1..n |-> 0],
   ran |-> [w \in 1..n |-> <<>>]]

\* the pool NewRoundRobinExecutor(n, q) builds: the ring of ids 1..n, one channel
\* of runners and one shutdown channel per id, a WaitGroup of n, and n worker
\* goroutines, each about to enter its select
Pool(n, q) ==
  [nThreads |-> n, threadQueueSize |-> q, mutex |-> {},
   ids |-> RingNew(n),
   channels |-> [w \in 1..n |-> <<>>],
   wg |-> n,
   wpc |-> [w \in 1..n |-> "select"],
   cur |-> [w \in 1..n |-> 0],
   ran |-> [w \in 1..n |-> <<>>]]

\* nothing has been built: no ring, no channel, no goroutine
NoPool ==
  [nThreads |-> 0, threadQueueSize |-> 0, mutex |-> {}, ids |-> 0, channels |-> <<>>,
   wg |-> 0, wpc |-> <<>>, cur |-> <<>>, ran |-> <<>>]

\* the variables hold pool e
IsPool(e) ==
  /\ nThreads = e.nThreads
  /\ threadQueueSize = e.threadQueueSize
  /\ mutex = e.mutex
  /\ ids = e.ids
  /\ channels = e.channels
  /\ wg = e.wg
  /\ wpc = e.wpc
  /\ cur = e.cur
  /\ ran = e.ran

\* the variables are given pool e
BecomesPool(e) ==
  /\ nThreads' = e.nThreads
  /\ threadQueueSize' = e.threadQueueSize
  /\ mutex' = e.mutex
  /\ ids' = e.ids
  /\ channels' = e.channels
  /\ wg' = e.wg
  /\ wpc' = e.wpc
  /\ cur' = e.cur
  /\ ran' = e.ran

\* no call of Execute or Shutdown has been made; callIds are the numbers the calls
\* of this run can have
NoCalls(callIds) ==
  /\ nextCall = 1
  /\ kind = [k \in callIds |-> "none"]
  /\ caller = [k \in callIds |-> 0]
  /\ pc = [k \in callIds |-> "new"]
  /\ id = [k \in callIds |-> 0]
  /\ rest = [k \in callIds |-> {}]
  /\ target = [k \in callIds |-> 0]
  /\ enqLog = <<>>
  /\ retAt = [k \in callIds |-> {}]
  /\ quiet = {}
  /\ late = {}
  /\ overlap = FALSE

\* every runner's function returns
NoFault ==
  /\ panics = {}
  /\ crashed = FALSE

\* the caller is about to call NewRoundRobinExecutor with any two small integers
InitNew ==
  /\ newArgs \in ((0 - 1)..MaxThreads) \X ((0 - 1)..MaxQueueSize)
  /\ newErr = "pending"
  /\ IsPool(NoPool)
  /\ NoCalls(Calls)
  /\ NoFault
  /\ LibUnused

\* mutant of NewRoundRobinExecutor: the arguments are refused only when both are
\* non-positive
NewRoundRobinExecutorBothBad ==
  /\ newErr = "pending"
  /\ IF newArgs[1] < 1 /\ newArgs[2] < 1
       THEN /\ newErr' = "executor: invalid argument"
            /\ UNCHANGED <<nThreads, threadQueueSize, mutex, ids, channels, wg, wpc, cur, ran>>
       ELSE /\ newErr' = "nil"
            /\ BecomesPool(Pool(newArgs[1], newArgs[2]))
  /\ UNCHANGED <<newArgs, faultVars, libVars, pc, callVars, enqLog>>

\* NewRoundRobinExecutor(nThreads, threadQueueSize) runs and returns
NewRoundRobinExecutor ==
  /\ newErr = "pending"
  /\ IF newArgs[1] < 1 \/ newArgs[2] < 1
       THEN /\ newErr' = "executor: invalid argument"
            /\ UNCHANGED <<nThreads, threadQueueSize, mutex, ids, channels, wg, wpc, cur, ran>>
       ELSE /\ newErr' = "nil"
            /\ BecomesPool(Pool(newArgs[1], newArgs[2]))
  /\ UNCHANGED <<newArgs, faultVars, libVars, pc, callVars, enqLog>>

\* the state after a successful NewRoundRobinExecutor(nThreads, threadQueueSize)
Init ==
  /\ \E n \in 1..MaxThreads : \E q \in 1..MaxQueueSize :
       /\ newArgs = <<n, q>>
       /\ IsPool(Pool(n, q))
  /\ newErr = "nil"
  /\ NoCalls(Calls)
  /\ NoFault
  /\ LibUnused

\* ---------------------------------------------------------------- worker goroutine
\* mutant of WorkerReceive: the runner is read but stays in the channel
WorkerReceiveNoRemove(w) ==
  /\ wpc[w] = "select"
  /\ Len(channels[w]) > 0
  /\ Len(ran[w]) < MaxCalls
  /\ cur' = [cur EXCEPT ![w] = Head(channels[w])]
  /\ wpc' = [wpc EXCEPT ![w] = "run"]
  /\ UNCHANGED <<poolVars, faultVars, libVars, mutex, ids, channels, wg, pc, callVars, enqLog, ran>>

\* mutant of WorkerReceive: the worker takes the newest runner of its channel
WorkerReceiveNewest(w) ==
  /\ wpc[w] = "select"
  /\ Len(channels[w]) > 0
  /\ cur' = [cur EXCEPT ![w] = channels[w][Len(channels[w])]]
  /\ channels' = [channels EXCEPT ![w] = SubSeq(@, 1, Len(@) - 1)]
  /\ wpc' = [wpc EXCEPT ![w] = "run"]
  /\ UNCHANGED <<poolVars, faultVars, libVars, mutex, ids, wg, pc, callVars, enqLog, ran>>

\* mutant of WorkerReceive: the worker also takes a runner while one is running
\* (the loop starts "go runner.Run()" and selects again)
WorkerReceiveWhileRunning(w) ==
  /\ wpc[w] \in {"select", "run"}
  /\ Len(channels[w]) > 0
  /\ cur' = [cur EXCEPT ![w] = Head(channels[w])]
  /\ channels' = [channels EXCEPT ![w] = Tail(channels[w])]
  /\ wpc' = [wpc EXCEPT ![w] = "run"]
  /\ UNCHANGED <<poolVars, faultVars, libVars, mutex, ids, wg, pc, callVars, enqLog, ran>>

\* mutant of WorkerReceive: the channel of runners is still received from after
\* the stop signal has ended the loop
WorkerReceiveAfterStop(w) ==
  /\ wpc[w] \in {"select", "stopped"}
  /\ Len(channels[w]) > 0
  /\ cur' = [cur EXCEPT ![w] = Head(channels[w])]
  /\ channels' = [channels EXCEPT ![w] = Tail(channels[w])]
  /\ wpc' = [wpc EXCEPT ![w] = "run"]
  /\ UNCHANGED <<poolVars, faultVars, libVars, mutex, ids, wg, pc, callVars, enqLog, ran>>

\* mutant of WorkerReceive: a worker takes the oldest runner of any worker's channel
WorkerReceiveSteals(w) ==
  /\ wpc[w] = "select"
  /\ \E v \in Workers :
       /\ Len(channels[v]) > 0
       /\ cur' = [cur EXCEPT ![w] = Head(channels[v])]
       /\ channels' = [channels EXCEPT ![v] = Tail(channels[v])]
  /\ wpc' = [wpc EXCEPT ![w] = "run"]
  /\ UNCHANGED <<poolVars, faultVars, libVars, mutex, ids, wg, pc, callVars, enqLog, ran>>

\* case runner := <-runners
WorkerReceive(w) ==
  /\ wpc[w] = "select"
  /\ Len(channels[w]) > 0
  /\ cur' = [cur EXCEPT ![w] = Head(channels[w])]
  /\ channels' = [channels EXCEPT ![w] = Tail(channels[w])]
  /\ wpc' = [wpc EXCEPT ![w] = "run"]
  /\ UNCHANGED <<poolVars, faultVars, libVars, mutex, ids, wg, pc, callVars, enqLog, ran>>

\* mutant of WorkerRun: Run returns while a call it made is still in progress
\* (the runner made the call in a goroutine of its own)
WorkerRunDetached(w) ==
  /\ wpc[w] = "run"
  /\ cur[w] \notin panics
  /\ ran' = [ran EXCEPT ![w] = Append(@, cur[w])]
  /\ cur' = [cur EXCEPT ![w] = 0]
  /\ wpc' = [wpc EXCEPT ![w] = "select"]
  /\ UNCHANGED <<poolVars, faultVars, libVars, mutex, ids, channels, wg, pc, callVars, enqLog>>

\* runner.Run() returns, every call it made having returned
WorkerRun(w) ==
  /\ wpc[w] = "run"
  /\ cur[w] \notin panics
  /\ \A k \in DOMAIN caller : caller[k] = w => pc[k] \in {"new", "returned"}
  /\ ran' = [ran EXCEPT ![w] = Append(@, cur[w])]
  /\ cur' = [cur EXCEPT ![w] = 0]
  /\ wpc' = [wpc EXCEPT ![w] = "select"]
  /\ UNCHANGED <<poolVars, faultVars, libVars, mutex, ids, channels, wg, pc, callVars, enqLog>>

\* runner.Run() panics.  Neither Run nor the worker's loop recovers, so the panic
\* leaves the goroutine's function and the Go runtime terminates the program.
WorkerPanic(w) ==
  /\ wpc[w] = "run"
  /\ cur[w] \in panics
  /\ crashed' = TRUE
  /\ UNCHANGED <<poolVars, libVars, panics, mutex, ids, channels, wg, wpc, cur, pc, callVars,
                 enqLog, ran>>

\* mutant of WorkerExit: the worker leaves without wg.Done()
WorkerExitNoDone(w) ==
  /\ wpc[w] = "exiting"
  /\ wpc' = [wpc EXCEPT ![w] = "stopped"]
  /\ UNCHANGED <<poolVars, faultVars, libVars, mutex, ids, channels, wg, cur, ran, pc, callVars, enqLog>>

\* mutant of WorkerExit: the return is missing, the worker goes round its loop again
WorkerExitNoReturn(w) ==
  /\ wpc[w] = "exiting"
  /\ wg' = wg - 1
  /\ wpc' = [wpc EXCEPT ![w] = "select"]
  /\ UNCHANGED <<poolVars, faultVars, libVars, mutex, ids, channels, cur, ran, pc, callVars, enqLog>>

\* mutant of WorkerExit: wg.Done() is called twice
WorkerExitDoneTwice(w) ==
  /\ wpc[w] = "exiting"
  /\ wg' = wg - 2
  /\ wpc' = [wpc EXCEPT ![w] = "stopped"]
  /\ UNCHANGED <<poolVars, faultVars, libVars, mutex, ids, channels, cur, ran, pc, callVars, enqLog>>

\* runtime.UnlockOSThread(); wg.Done(); return
WorkerExit(w) ==
  /\ wpc[w] = "exiting"
  /\ wg' = wg - 1
  /\ wpc' = [wpc EXCEPT ![w] = "stopped"]
  /\ UNCHANGED <<poolVars, faultVars, libVars, mutex, ids, channels, cur, ran, pc, callVars, enqLog>>

\* ---------------------------------------------------------------- Execute
\* some goroutine calls e.Execute(runner)
CallExecute(k) ==
  /\ k = nextCall
  /\ nextCall' = nextCall + 1
  /\ kind' = [kind EXCEPT ![k] = "Execute"]
  /\ caller' = [caller EXCEPT ![k] = 0]
  /\ pc' = [pc EXCEPT ![k] = "exec_lock"]
  /\ late' = IF Shutdowns \cap Returned # {} THEN late \cup {k} ELSE late
  /\ overlap' = (overlap \/ Executes \ Returned # {})
  /\ UNCHANGED <<poolVars, faultVars, libVars, mutex, ids, channels, wg, wpc, cur, id, rest, target, enqLog, ran,
                 retAt, quiet>>

\* mutant of ExecuteLock: Execute reads the cursor without taking the mutex
ExecuteLockNoMutex(k) ==
  /\ pc[k] = "exec_lock"
  /\ id' = [id EXCEPT ![k] = ids]
  /\ pc' = [pc EXCEPT ![k] = "exec_send"]
  /\ UNCHANGED <<poolVars, faultVars, libVars, mutex, ids, channels, wg, wpc, cur, nextCall, kind, caller, rest, target,
                 retAt, quiet, late, overlap, enqLog, ran>>

\* e.mutex.Lock(); id := e.ids.Value.(int)
ExecuteLock(k) ==
  /\ pc[k] = "exec_lock"
  /\ MutexLock(k)
  /\ id' = [id EXCEPT ![k] = ids]
  /\ pc' = [pc EXCEPT ![k] = "exec_send"]
  /\ UNCHANGED <<poolVars, faultVars, libVars, ids, channels, wg, wpc, cur, nextCall, kind, caller, rest, target,
                 retAt, quiet, late, overlap, enqLog, ran>>

\* mutant of ExecuteSend: the send does not wait for room in the channel
ExecuteSendNoWait(k) ==
  /\ pc[k] = "exec_send"
  /\ channels' = [channels EXCEPT ![id[k]] = Append(@, k)]
  /\ enqLog' = Append(enqLog, <<k, id[k]>>)
  /\ pc' = [pc EXCEPT ![k] = "exec_next"]
  /\ UNCHANGED <<poolVars, faultVars, libVars, mutex, ids, wg, wpc, cur, callVars, ran>>

\* e.channels[id] <- runner
ExecuteSend(k) ==
  /\ pc[k] = "exec_send"
  /\ Len(channels[id[k]]) < threadQueueSize
  /\ channels' = [channels EXCEPT ![id[k]] = Append(@, k)]
  /\ enqLog' = Append(enqLog, <<k, id[k]>>)
  /\ pc' = [pc EXCEPT ![k] = "exec_next"]
  /\ UNCHANGED <<poolVars, faultVars, libVars, mutex, ids, wg, wpc, cur, callVars, ran>>

\* mutant of ExecuteReturn: the cursor stops at the last id instead of wrapping
ExecuteReturnNoWrap(k) ==
  /\ pc[k] = "exec_next"
  /\ ids' = IF ids = nThreads THEN ids ELSE ids + 1
  /\ MutexUnlock(k)
  /\ pc' = [pc EXCEPT ![k] = "returned"]
  /\ UNCHANGED <<poolVars, faultVars, libVars, channels, wg, wpc, cur, callVars, enqLog, ran>>

\* mutant of ExecuteReturn: the deferred e.mutex.Unlock() is missing
ExecuteReturnNoUnlock(k) ==
  /\ pc[k] = "exec_next"
  /\ ids' = RingNext(ids, nThreads)
  /\ pc' = [pc EXCEPT ![k] = "returned"]
  /\ UNCHANGED <<poolVars, faultVars, libVars, mutex, channels, wg, wpc, cur, callVars, enqLog, ran>>

\* e.ids = e.ids.Next(); deferred e.mutex.Unlock(); return
ExecuteReturn(k) ==
  /\ pc[k] = "exec_next"
  /\ ids' = RingNext(ids, nThreads)
  /\ MutexUnlock(k)
  /\ pc' = [pc EXCEPT ![k] = "returned"]
  /\ UNCHANGED <<poolVars, faultVars, libVars, channels, wg, wpc, cur, callVars, enqLog, ran>>

\* ---------------------------------------------------------------- Shutdown
\* some goroutine calls e.Shutdown()
CallShutdown(k) ==
  /\ k = nextCall
  /\ nextCall' = nextCall + 1
  /\ kind' = [kind EXCEPT ![k] = "Shutdown"]
  /\ caller' = [caller EXCEPT ![k] = 0]
  /\ pc' = [pc EXCEPT ![k] = "shut_lock"]
  /\ retAt' = [retAt EXCEPT ![k] = Executes \cap Returned]
  /\ quiet' = IF Executes \subseteq Completed THEN quiet \cup {k} ELSE quiet
  /\ UNCHANGED <<poolVars, faultVars, libVars, mutex, ids, channels, wg, wpc, cur, id, rest, target, enqLog, ran,
                 late, overlap>>

\* mutant of ShutdownLock: Shutdown starts its range loop without taking the mutex
ShutdownLockNoMutex(k) ==
  /\ pc[k] = "shut_lock"
  /\ \E w \in Workers :
       /\ target' = [target EXCEPT ![k] = w]
       /\ rest' = [rest EXCEPT ![k] = Workers \ {w}]
  /\ pc' = [pc EXCEPT ![k] = "shut_send"]
  /\ UNCHANGED <<poolVars, faultVars, libVars, mutex, ids, channels, wg, wpc, cur, nextCall, kind, caller, id, retAt, quiet,
                 late, overlap, enqLog, ran>>

\* the Run of the runner worker w is running calls e.Shutdown(), on w's goroutine
RunnerShutdown(w, k) ==
  /\ wpc[w] = "run"
  /\ cur[w] \notin panics
  /\ \A j \in DOMAIN caller : caller[j] = w => pc[j] \in {"new", "returned"}
  /\ k = nextCall
  /\ nextCall' = nextCall + 1
  /\ kind' = [kind EXCEPT ![k] = "Shutdown"]
  /\ caller' = [caller EXCEPT ![k] = w]
  /\ pc' = [pc EXCEPT ![k] = "shut_lock"]
  /\ retAt' = [retAt EXCEPT ![k] = Executes \cap Returned]
  /\ quiet' = IF Executes \subseteq Completed THEN quiet \cup {k} ELSE quiet
  /\ UNCHANGED <<poolVars, faultVars, libVars, mutex, ids, channels, wg, wpc, cur, id, rest, target, enqLog, ran,
                 late, overlap>>

\* e.mutex.Lock(); the range loop over e.shutdown reaches its first channel
\* (the iteration order of a Go map is unspecified)
ShutdownLock(k) ==
  /\ pc[k] = "shut_lock"
  /\ MutexLock(k)
  /\ \E w \in Workers :
       /\ target' = [target EXCEPT ![k] = w]
       /\ rest' = [rest EXCEPT ![k] = Workers \ {w}]
  /\ pc' = [pc EXCEPT ![k] = "shut_send"]
  /\ UNCHANGED <<poolVars, faultVars, libVars, ids, channels, wg, wpc, cur, nextCall, kind, caller, id, retAt, quiet,
                 late, overlap, enqLog, ran>>

\* mutant of ShutdownSend: the worker takes its stop signal only when its channel
\* of runners is empty (a select that prefers the runners)
ShutdownSendAfterDrain(k, w) ==
  /\ pc[k] = "shut_send"
  /\ target[k] = w
  /\ wpc[w] = "select"
  /\ Len(channels[w]) = 0
  /\ wpc' = [wpc EXCEPT ![w] = "exiting"]
  /\ IF rest[k] = {}
       THEN /\ target' = [target EXCEPT ![k] = 0]
            /\ rest' = rest
            /\ pc' = [pc EXCEPT ![k] = "shut_wait"]
       ELSE /\ \E n \in rest[k] :
                 /\ target' = [target EXCEPT ![k] = n]
                 /\ rest' = [rest EXCEPT ![k] = @ \ {n}]
            /\ pc' = pc
  /\ UNCHANGED <<poolVars, faultVars, libVars, mutex, ids, channels, wg, cur, nextCall, kind, caller, id, retAt, quiet,
                 late, overlap, enqLog, ran>>

\* mutant of ShutdownSend: Shutdown also empties the channel of the worker it stops
ShutdownSendDiscards(k, w) ==
  /\ pc[k] = "shut_send"
  /\ target[k] = w
  /\ wpc[w] = "select"
  /\ wpc' = [wpc EXCEPT ![w] = "exiting"]
  /\ channels' = [channels EXCEPT ![w] = <<>>]
  /\ IF rest[k] = {}
       THEN /\ target' = [target EXCEPT ![k] = 0]
            /\ rest' = rest
            /\ pc' = [pc EXCEPT ![k] = "shut_wait"]
       ELSE /\ \E n \in rest[k] :
                 /\ target' = [target EXCEPT ![k] = n]
                 /\ rest' = [rest EXCEPT ![k] = @ \ {n}]
            /\ pc' = pc
  /\ UNCHANGED <<poolVars, faultVars, libVars, mutex, ids, wg, cur, nextCall, kind, caller, id, retAt, quiet,
                 late, overlap, enqLog, ran>>

\* mutant of ShutdownSend: the send is given up when the worker has exited
\* (a select with a case that a closed done channel makes ready)
ShutdownSendSkipsStopped(k, w) ==
  /\ pc[k] = "shut_send"
  /\ target[k] = w
  /\ wpc[w] \in {"select", "stopped"}
  /\ wpc' = [wpc EXCEPT ![w] = IF @ = "select" THEN "exiting" ELSE @]
  /\ IF rest[k] = {}
       THEN /\ target' = [target EXCEPT ![k] = 0]
            /\ rest' = rest
            /\ pc' = [pc EXCEPT ![k] = "shut_wait"]
       ELSE /\ \E n \in rest[k] :
                 /\ target' = [target EXCEPT ![k] = n]
                 /\ rest' = [rest EXCEPT ![k] = @ \ {n}]
            /\ pc' = pc
  /\ UNCHANGED <<poolVars, faultVars, libVars, mutex, ids, channels, wg, cur, nextCall, kind, caller, id, retAt, quiet,
                 late, overlap, enqLog, ran>>

\* c <- struct{}{} on the unbuffered shutdown channel meets "case <-shutdown" of
\* worker w's select; the range loop then reaches its next channel, or ends
ShutdownSend(k, w) ==
  /\ pc[k] = "shut_send"
  /\ target[k] = w
  /\ wpc[w] = "select"
  /\ wpc' = [wpc EXCEPT ![w] = "exiting"]
  /\ IF rest[k] = {}
       THEN /\ target' = [target EXCEPT ![k] = 0]
            /\ rest' = rest
            /\ pc' = [pc EXCEPT ![k] = "shut_wait"]
       ELSE /\ \E n \in rest[k] :
                 /\ target' = [target EXCEPT ![k] = n]
                 /\ rest' = [rest EXCEPT ![k] = @ \ {n}]
            /\ pc' = pc
  /\ UNCHANGED <<poolVars, faultVars, libVars, mutex, ids, channels, wg, cur, nextCall, kind, caller, id, retAt, quiet,
                 late, overlap, enqLog, ran>>

\* mutant of ShutdownReturn: Shutdown does not wait for the WaitGroup
ShutdownReturnNoWait(k) ==
  /\ pc[k] = "shut_wait"
  /\ MutexUnlock(k)
  /\ pc' = [pc EXCEPT ![k] = "returned"]
  /\ UNCHANGED <<poolVars, faultVars, libVars, ids, channels, wg, wpc, cur, callVars, enqLog, ran>>

\* e.wg.Wait() returns; deferred e.mutex.Unlock(); return
ShutdownReturn(k) ==
  /\ pc[k] = "shut_wait"
  /\ wg = 0
  /\ MutexUnlock(k)
  /\ pc' = [pc EXCEPT ![k] = "returned"]
  /\ UNCHANGED <<poolVars, faultVars, libVars, ids, channels, wg, wpc, cur, callVars, enqLog, ran>>

\* ---------------------------------------------------------------- specification
Next ==
  \/ \E w \in Workers : WorkerReceive(w)
  \/ \E w \in Workers : WorkerRun(w)
  \/ \E w \in Workers : WorkerExit(w)
  \/ \E k \in Calls : CallExecute(k)
  \/ \E k \in Calls : ExecuteLock(k)
  \/ \E k \in Calls : ExecuteSend(k)
  \/ \E k \in Calls : ExecuteReturn(k)
  \/ \E k \in Calls : CallShutdown(k)
  \/ \E k \in Calls : ShutdownLock(k)
  \/ \E k \in Calls : \E w \in Workers : ShutdownSend(k, w)
  \/ \E k \in Calls : ShutdownReturn(k)

Spec == Init /\ [][Next]_vars

\* The same program from before the constructor is called: Execute and Shutdown
\* are methods of the pool the constructor returned, so calls need newErr = "nil".
NextNew ==
  \/ NewRoundRobinExecutor
  \/ (newErr = "nil" /\ Next)

SpecNew == InitNew /\ [][NextNew]_vars

\* The runs in which Shutdown is never called: a pool of MaxThreads workers with
\* channels of capacity 1 is given MaxSubmits calls of Execute.
InitSubmit ==
  /\ newArgs = <<MaxThreads, 1>>
  /\ IsPool(Pool(MaxThreads, 1))
  /\ newErr = "nil"
  /\ NoCalls(Submits)
  /\ NoFault
  /\ LibUnused

NextSubmit ==
  \/ \E w \in Workers : WorkerReceive(w)
  \/ \E w \in Workers : WorkerRun(w)
  \/ \E k \in Submits : CallExecute(k)
  \/ \E k \in Submits : ExecuteLock(k)
  \/ \E k \in Submits : ExecuteSend(k)
  \/ \E k \in Submits : ExecuteReturn(k)

SpecSubmit == InitSubmit /\ [][NextSubmit]_vars

\* The runs in which the functions of some runners panic.  Nothing moves once the
\* program has been terminated.
InitPanic ==
  /\ \E n \in 1..MaxThreads : \E q \in 1..MaxQueueSize :
       /\ newArgs = <<n, q>>
       /\ IsPool(Pool(n, q))
  /\ newErr = "nil"
  /\ NoCalls(Calls)
  /\ panics \in SUBSET Calls
  /\ crashed = FALSE
  /\ LibUnused

NextPanic ==
  \/ (~ crashed /\ Next)
  \/ (~ crashed /\ \E w \in Workers : WorkerPanic(w))

SpecPanic == InitPanic /\ [][NextPanic]_vars

\* The Go scheduler runs every runnable goroutine, sync.Mutex hands the lock to a
\* waiter, and every runner's Run terminates.  Issuing new calls is up to the
\* environment and gets no fairness.
\* every step of call k after it has been issued
CallStep(k) ==
  \/ ExecuteLock(k) \/ ExecuteSend(k) \/ ExecuteReturn(k)
  \/ ShutdownLock(k) \/ (\E w \in Workers : ShutdownSend(k, w)) \/ ShutdownReturn(k)

\* every step of worker w that it takes alone
WorkerStep(w) == WorkerReceive(w) \/ WorkerRun(w) \/ WorkerExit(w)

Fairness ==
  /\ \A w \in 1..MaxThreads : WF_vars(w \in Workers /\ WorkerStep(w))
  /\ \A k \in Calls : WF_vars(CallStep(k))

FairSpec == Spec /\ Fairness

\* The runs of any pool in which Shutdown is never called and every call of
\* Execute is made by a goroutine outside the pool, under the same scheduling.
NextProgress ==
  \/ \E w \in Workers : WorkerReceive(w)
  \/ \E w \in Workers : WorkerRun(w)
  \/ \E k \in Calls : CallExecute(k)
  \/ \E k \in Calls : ExecuteLock(k)
  \/ \E k \in Calls : ExecuteSend(k)
  \/ \E k \in Calls : ExecuteReturn(k)

SpecProgress == Init /\ [][NextProgress]_vars /\ Fairness

\* The runs in which a runner may call Shutdown on the pool that runs it.
NextInside ==
  \/ Next
  \/ \E w \in Workers : \E k \in Calls : RunnerShutdown(w, k)

SpecInside == Init /\ [][NextInside]_vars

\* ---------------------------------------------------------------- Task and Callable
\* the variables of the executor
execVars == <<poolVars, faultVars, mutex, ids, channels, wg, wpc, cur, pc, callVars, enqLog, ran>>

\* no pool is built
ExecutorUnused ==
  /\ newArgs = <<0, 0>>
  /\ newErr = "pending"
  /\ IsPool(NoPool)
  /\ NoCalls({})
  /\ NoFault

\* mutant of NewRunner: the channel is made without a buffer
NewRunnerUnbuffered(r, do, arg) ==
  /\ made[r].r = 0
  /\ chans' = Append(chans, [cap |-> 0, buf |-> <<>>])
  /\ made' = [made EXCEPT ![r] = [do |-> do, arg |-> arg, r |-> Len(chans) + 1]]
  /\ handle' = [handle EXCEPT ![r] = Len(chans) + 1]
  /\ UNCHANGED <<execVars, loggerVars, configVars, frame, doLog, got>>

\* NewTask(do, arg) for r = "Task", NewCallable(do) for r = "Callable": make a
\* channel of capacity 2, return the runner holding it and the channel itself
NewRunner(r, do, arg) ==
  /\ made[r].r = 0
  /\ chans' = Append(chans, [cap |-> 2, buf |-> <<>>])
  /\ made' = [made EXCEPT ![r] = [do |-> do, arg |-> arg, r |-> Len(chans) + 1]]
  /\ handle' = [handle EXCEPT ![r] = Len(chans) + 1]
  /\ UNCHANGED <<execVars, loggerVars, configVars, frame, doLog, got>>

\* mutant of Run: the function is given the channel made first, whoever owns it
RunFirstChannel(r) ==
  /\ made[r].r # 0
  /\ frame[r].pc = "idle"
  /\ frame' = [frame EXCEPT ![r] = [pc |-> "running", arg |-> made[r].arg, ch |-> 1,
                                     sent |-> 0]]
  /\ doLog' = Append(doLog, [runner |-> r, arg |-> made[r].arg, ch |-> 1])
  /\ UNCHANGED <<execVars, loggerVars, configVars, made, handle, chans, got>>

\* some goroutine calls Run: t.do(t.arg, t.r), c.do(c.e)
Run(r) ==
  /\ made[r].r # 0
  /\ frame[r].pc = "idle"
  /\ frame' = [frame EXCEPT ![r] = [pc |-> "running", arg |-> made[r].arg, ch |-> made[r].r,
                                     sent |-> 0]]
  /\ doLog' = Append(doLog, [runner |-> r, arg |-> made[r].arg, ch |-> made[r].r])
  /\ UNCHANGED <<execVars, loggerVars, configVars, made, handle, chans, got>>

\* the function sends its value on the channel it was given; a send waits while
\* the channel holds as many values as its capacity
Publish(r) ==
  /\ frame[r].pc = "running"
  /\ frame[r].sent < made[r].do.n
  /\ Len(chans[frame[r].ch].buf) < chans[frame[r].ch].cap
  /\ chans' = [chans EXCEPT ![frame[r].ch].buf = Append(@, made[r].do.v)]
  /\ frame' = [frame EXCEPT ![r].sent = @ + 1]
  /\ UNCHANGED <<execVars, loggerVars, configVars, made, handle, doLog, got>>

\* the function has published all it publishes and returns, and so does Run
RunReturn(r) ==
  /\ frame[r].pc = "running"
  /\ frame[r].sent = made[r].do.n
  /\ frame' = [frame EXCEPT ![r].pc = "done"]
  /\ UNCHANGED <<execVars, loggerVars, configVars, made, handle, chans, doLog, got>>

\* the caller of NewTask / NewCallable receives from the channel it was returned
Receive(r) ==
  /\ handle[r] # 0
  /\ chans[handle[r]].buf # <<>>
  /\ got' = [got EXCEPT ![r] = Append(@, Head(chans[handle[r]].buf))]
  /\ chans' = [chans EXCEPT ![handle[r]].buf = Tail(@)]
  /\ UNCHANGED <<execVars, loggerVars, configVars, made, handle, frame, doLog>>

InitTask ==
  /\ ExecutorUnused
  /\ TaskStart
  /\ LoggerUnused
  /\ ConfigUnused

NextTask ==
  \/ \E r \in Runners : \E do \in Functions(r) : \E arg \in Args(r) : NewRunner(r, do, arg)
  \/ \E r \in Runners : Run(r)
  \/ \E r \in Runners : Publish(r)
  \/ \E r \in Runners : RunReturn(r)
  \/ \E r \in Runners : Receive(r)

SpecTask == InitTask /\ [][NextTask]_vars

\* ---------------------------------------------------------------- Logger
\* NewLogger(level) with one of the five exported levels
NewLogger(level) ==
  /\ ~ logger.made
  /\ logger' = [made |-> TRUE, level |-> level, specifier |-> "none"]
  /\ UNCHANGED <<execVars, taskVars, configVars, logCalls, logOut>>

\* NewLoggerFrom(specifier)
NewLoggerFrom(specifier) ==
  /\ ~ logger.made
  /\ logger' = [made |-> TRUE, level |-> asLevel(specifier), specifier |-> specifier]
  /\ UNCHANGED <<execVars, taskVars, configVars, logCalls, logOut>>

\* a method of the Logger is called: the call is recorded and, when the method's
\* condition on l.level holds, a line goes out through the log.Logger of that method
LoggerCall(method, condition, prefix) ==
  /\ logger.made
  /\ Len(logCalls) < MaxLogCalls
  /\ logCalls' = Append(logCalls, method)
  /\ logOut' = IF condition THEN Append(logOut, prefix) ELSE logOut
  /\ UNCHANGED <<execVars, taskVars, configVars, logger>>

\* if l.level == TRACE { l.traceLogger.Output(...) }
Trace == LoggerCall("Trace", logger.level = TRACE, TRACE)

\* mutant of Debug: the comparison is strict
DebugStrict == LoggerCall("Debug", logger.level < DEBUG, DEBUG)

\* if l.level <= DEBUG { l.debugLogger.Output(...) }
Debug == LoggerCall("Debug", logger.level <= DEBUG, DEBUG)

\* if l.level <= INFO { l.infoLogger.Output(...) }
Info == LoggerCall("Info", logger.level <= INFO, INFO)

\* if l.level <= WARN { l.warnLogger.Output(...) }
Warn == LoggerCall("Warn", logger.level <= WARN, WARN)

\* if l.level <= ERROR { l.errorLogger.Output(...) }
Error == LoggerCall("Error", logger.level <= ERROR, ERROR)

InitLogger ==
  /\ ExecutorUnused
  /\ TaskUnused
  /\ LoggerStart
  /\ ConfigUnused

NextLogger ==
  \/ \E level \in {TRACE, DEBUG, INFO, WARN, ERROR} : NewLogger(level)
  \/ \E specifier \in Specifiers : NewLoggerFrom(specifier)
  \/ Trace
  \/ Debug
  \/ Info
  \/ Warn
  \/ Error

SpecLogger == InitLogger /\ [][NextLogger]_vars

\* ---------------------------------------------------------------- Config
\* mutant of Walk: an element that is missing ends the walk, and the deepest node
\* found so far is returned when it is not nil
WalkDeepest(c, temp, elements) ==
  LET RECURSIVE Deepest(_, _)
      Deepest(t, es) ==
        IF es = <<>> THEN t
        ELSE IF Head(es) \in DOMAIN t.content
          THEN LET v == t.content[Head(es)]
               IN  IF v.type = "object"
                     THEN Deepest([state |-> "ready", content |-> v.m, node |-> v], Tail(es))
                     ELSE Deepest([state |-> "ready", content |-> EmptyMap, node |-> v], Tail(es))
          ELSE t
      found == Deepest(temp, elements)
  IN  IF found.node # Nil THEN found ELSE c

\* the loop of Get over split(key): temp steps into the node of each element; an
\* element that is missing makes Get return its receiver c
RECURSIVE Walk(_, _, _)
Walk(c, temp, elements) ==
  IF elements = <<>> THEN temp
  ELSE IF Head(elements) \in DOMAIN temp.content
    THEN LET v == temp.content[Head(elements)]
         IN  IF v.type = "object"
               THEN Walk(c, [state |-> "ready", content |-> v.m, node |-> v], Tail(elements))
               ELSE Walk(c, [state |-> "ready", content |-> EmptyMap, node |-> v], Tail(elements))
    ELSE c

\* c.Get(key)
Get(c, key) ==
  IF asEnv(key) \in DOMAIN environ
    THEN [state |-> "ready", content |-> c.content, node |-> Str(environ[asEnv(key)])]
  ELSE IF /\ asArg(key) \in DOMAIN flagSet
          /\ \E i \in 1..Len(osArgs) :
               \/ osArgs[i] = <<"-">> \o asArg(key)
               \/ osArgs[i] = <<"-", "-">> \o asArg(key)
    THEN [state |-> "ready", content |-> c.content, node |-> Str(flagSet[asArg(key)].value)]
  ELSE Walk(c, c, split(key))

\* c.String(): the value and the error
String(c) ==
  IF c.node = Nil THEN [s |-> <<>>, e |-> "ErrNotFoundOrNullValue"]
  ELSE IF c.node.type = "string" THEN [s |-> c.node.v, e |-> "nil"]
  ELSE [s |-> <<>>, e |-> "configuring: to string not supported"]

\* c.StringOrElse(value)
StringOrElse(c, value) ==
  IF c.node = Nil THEN value
  ELSE IF c.node.type = "string" THEN c.node.v
  ELSE value

\* the program starts in some environment, with some flags defined and some
\* command line
InitConfig ==
  /\ ExecutorUnused
  /\ TaskUnused
  /\ LoggerUnused
  /\ environ \in Environments
  /\ flagSet \in FlagSets
  /\ \E arguments \in ArgLists : osArgs = <<<<"p">>>> \o arguments
  /\ config = [state |-> "none", content |-> EmptyMap, node |-> Nil]
  /\ lookup = [done |-> FALSE, key |-> <<>>, node |-> Nil, s |-> <<>>, e |-> "nil",
               orElse |-> <<>>]

\* New(): flag.Parse() on os.Args[1:], then the empty Config
New ==
  /\ config.state = "none"
  /\ LET parsed == FlagParse(Tail(osArgs), flagSet)
     IN  IF parsed.err
           THEN /\ config' = [config EXCEPT !.state = "exited"]
                /\ flagSet' = flagSet
           ELSE /\ config' = [config EXCEPT !.state = "ready"]
                /\ flagSet' = parsed.formal
  /\ UNCHANGED <<execVars, taskVars, loggerVars, environ, osArgs, lookup>>

\* c.LoadJSON(filename) of a file holding document
LoadJSON(document) ==
  /\ config.state = "ready"
  /\ config.content = EmptyMap
  /\ ~ lookup.done
  /\ config' = [config EXCEPT !.content = document]
  /\ UNCHANGED <<execVars, taskVars, loggerVars, environ, flagSet, osArgs, lookup>>

\* c.Get(key).String() and c.Get(key).StringOrElse("o") on the Config New returned
Lookup(key) ==
  /\ config.state = "ready"
  /\ ~ lookup.done
  /\ lookup' = [done |-> TRUE, key |-> key, node |-> Get(config, key).node,
                s |-> String(Get(config, key)).s, e |-> String(Get(config, key)).e,
                orElse |-> StringOrElse(Get(config, key), <<"o">>)]
  /\ UNCHANGED <<execVars, taskVars, loggerVars, environ, flagSet, osArgs, config>>

NextConfig ==
  \/ New
  \/ \E document \in Documents : LoadJSON(document)
  \/ \E key \in Keys : Lookup(key)

SpecConfig == InitConfig /\ [][NextConfig]_vars

\* ---------------------------------------------------------------- Config.Uint
\* the longest value an environment variable is given
MaxDigits == 2

\* the characters of the values given to environment variables
NumChars == {"-", "+", "0", "1", "7", "x"}

NumStrings == UNION {[1..n -> NumChars] : n \in 0..MaxDigits}

\* the value of a decimal digit, -1 for any other character
DigitValue(ch) ==
  CASE ch = "0" -> 0
    [] ch = "1" -> 1
    [] ch = "7" -> 7
    [] OTHER -> 0 - 1

\* the number a sequence of decimal digits denotes
RECURSIVE DigitsValue(_)
DigitsValue(s) ==
  IF s = <<>> THEN 0 ELSE 10 * DigitsValue(SubSeq(s, 1, Len(s) - 1)) + DigitValue(s[Len(s)])

\* strconv.ParseInt(s, 10, 0): an optional sign, then one or more decimal digits.
\* The values here are far inside the range of int, so the range error of
\* ParseInt does not arise.
ParseInt(s) ==
  LET signed == s # <<>> /\ s[1] \in {"+", "-"}
      digits == IF signed THEN Tail(s) ELSE s
  IN  IF digits = <<>> \/ \E i \in 1..Len(digits) : DigitValue(digits[i]) < 0
        THEN [v |-> 0, e |-> "strconv.ParseInt: invalid syntax"]
        ELSE [v |-> IF signed /\ s[1] = "-" THEN 0 - DigitsValue(digits) ELSE DigitsValue(digits),
              e |-> "nil"]

\* A uint is written [wraps, v] and is the number wraps * 2^w + v, w being the
\* width of uint on the platform (32 or 64): the conversion uint(v) of an int
\* keeps v when v >= 0 and gives 2^w + v when v < 0.
ToUint(v) == [wraps |-> IF v < 0 THEN 1 ELSE 0, v |-> v]

\* c.Uint(): the value and the error.  No node is a Go uint: a node comes from the
\* environment or a flag as a string, or from json.Unmarshal.
Uint(c) ==
  IF c.node = Nil THEN [u |-> ToUint(0), e |-> "ErrNotFoundOrNullValue"]
  ELSE IF ParseInt(StringOrElse(c, <<>>)).e = "nil"
    THEN [u |-> ToUint(ParseInt(StringOrElse(c, <<>>)).v), e |-> "nil"]
  ELSE [u |-> ToUint(0), e |-> "configuring: to uint not supported"]

\* c.UintOrElse(value)
UintOrElse(c, value) ==
  IF c.node = Nil THEN ToUint(value)
  ELSE IF ParseInt(StringOrElse(c, <<>>)).e = "nil"
    THEN ToUint(ParseInt(StringOrElse(c, <<>>)).v)
  ELSE ToUint(value)

\* the program starts with A_A unset or set to some short value, with some
\* flags defined and no command line argument
InitUint ==
  /\ ExecutorUnused
  /\ TaskUnused
  /\ LoggerUnused
  /\ \/ environ = EmptyMap
     \/ \E s \in NumStrings : environ = [n \in {<<"A", "_", "A">>} |-> s]
  /\ flagSet \in FlagSets
  /\ osArgs = <<<<"p">>>>
  /\ config = [state |-> "none", content |-> EmptyMap, node |-> Nil]
  /\ lookup = [done |-> FALSE, key |-> <<>>, node |-> Nil, u |-> ToUint(0), e |-> "nil",
               value |-> 0, orElse |-> ToUint(0)]

\* c.Get(key).Uint() and c.Get(key).UintOrElse(value) on the Config New returned
LookupUint(key, value) ==
  /\ config.state = "ready"
  /\ ~ lookup.done
  /\ lookup' = [done |-> TRUE, key |-> key, node |-> Get(config, key).node,
                u |-> Uint(Get(config, key)).u, e |-> Uint(Get(config, key)).e,
                value |-> value, orElse |-> UintOrElse(Get(config, key), value)]
  /\ UNCHANGED <<execVars, taskVars, loggerVars, environ, flagSet, osArgs, config>>

NextUint ==
  \/ New
  \/ \E document \in Documents : LoadJSON(document)
  \/ \E key \in Keys : \E value \in {0, 7} : LookupUint(key, value)

SpecUint == InitUint /\ [][NextUint]_vars

\* ================================================================ claims

\* the position of Execute call k among the Execute calls, in issue order
ExecIndex(k) == Cardinality({j \in Executes : j <= k})

\* a single submitter: every Execute call was issued after the previous one returned
Sequential == ~ overlap

\* C1: with a single submitter, the i-th Execute call sends its runner to the
\* channel of worker ((i-1) mod N) + 1.
C1_RoundRobinSingleSubmitter ==
  Sequential =>
    \A n \in 1..Len(enqLog) :
      enqLog[n][2] = ((ExecIndex(enqLog[n][1]) - 1) % nThreads) + 1

\* C1 witness: three Execute calls of one submitter on two workers; the third
\* has wrapped around to worker 1.
C1_Witness ==
  /\ Sequential
  /\ nThreads = 2
  /\ Len(enqLog) = 3
  /\ enqLog[3][2] = 1

\* C2: under concurrent submission the k-th send of the pool goes to worker
\* ((k-1) mod N) + 1, and the numbers of runners ever assigned to two workers
\* differ by at most one.
C2_RoundRobinConcurrent ==
  /\ \A n \in 1..Len(enqLog) : enqLog[n][2] = ((n - 1) % nThreads) + 1
  /\ \A v \in Workers : \A w \in Workers :
       Len(SentTo(v, enqLog)) - Len(SentTo(w, enqLog)) <= 1

\* C2 witness: two overlapping Execute calls whose sends happened in the reverse
\* of their issue order, on two workers.
C2_Witness ==
  /\ nThreads = 2
  /\ Len(enqLog) >= 2
  /\ enqLog[1][1] > enqLog[2][1]
  /\ ~ Sequential

\* C3: if A was sent to a worker's channel before B and B has been taken by the
\* worker, then A's Run has returned on that worker.
C3_FifoWithinWorker ==
  \A w \in Workers :
    LET sent == SentTo(w, enqLog)
        started == Started(w)
    IN \A i \in 1..Len(sent) : \A j \in 1..Len(sent) :
         (i < j /\ \E n \in 1..Len(started) : started[n] = sent[j])
           => \E n \in 1..Len(ran[w]) : ran[w][n] = sent[i]

\* C3 witness: a worker has finished one runner and taken a second one that was
\* waiting behind it in the channel.
C3_Witness ==
  \E w \in Workers : Len(ran[w]) >= 1 /\ cur[w] # 0 /\ Len(channels[w]) >= 1

\* an Execute call that is waiting to send on a channel that is full
Blocked(k) == pc[k] = "exec_send" /\ Len(channels[id[k]]) = threadQueueSize

\* C4: a channel never holds more than threadQueueSize runners; an Execute call
\* whose channel is full stays where it is, with the same target, until the
\* worker takes a runner; it leaves the send only by appending its own runner
\* to the channel it read from the cursor, and can do so as soon as there is room.
C4_Backpressure ==
  /\ [](\A w \in Workers : Len(channels[w]) <= threadQueueSize)
  /\ [](\A k \in Calls :
          (pc[k] = "exec_send" /\ ~ Blocked(k)) => ENABLED ExecuteSend(k))
  /\ [][\A k \in Calls :
          /\ Blocked(k) => pc'[k] = "exec_send" /\ id'[k] = id[k]
          /\ (pc[k] = "exec_send" /\ pc'[k] # "exec_send") =>
               /\ pc'[k] = "exec_next"
               /\ channels' = [channels EXCEPT ![id[k]] = Append(@, k)]]_vars

\* C4 witness: an Execute call is blocked on the full channel of a worker that
\* is still in its loop, after more runners were sent than a channel holds.
C4_Witness ==
  \E k \in Calls :
    /\ Blocked(k)
    /\ wpc[id[k]] \in {"select", "run"}
    /\ Len(enqLog) > threadQueueSize

\* C5: once a Shutdown call has returned, every worker has consumed its stop
\* signal, called wg.Done and left its loop, and none is running a runner.
C5_ShutdownAfterAllStopped ==
  (\E k \in Shutdowns : pc[k] = "returned") =>
    /\ wg = 0
    /\ \A w \in Workers : wpc[w] = "stopped" /\ cur[w] = 0

\* C5 witness: Shutdown has returned on a pool of two workers.
C5_Witness ==
  /\ nThreads = 2
  /\ \E k \in Shutdowns : pc[k] = "returned"

\* C6: every runner whose Execute call had returned before Shutdown was called
\* has been run to completion when that Shutdown call returns.
C6_ShutdownCompletesPassedTasks ==
  \A k \in Shutdowns :
    pc[k] = "returned" => \A r \in retAt[k] : r \in Completed

\* a Shutdown call is sending the stop signal of worker w
StopPending(w) == \E k \in Calls : pc[k] = "shut_send" /\ target[k] = w

Late(k) == k \in late

\* C8 as stated: an Execute call issued after Shutdown has returned never returns.
C8_LateExecuteNeverReturns ==
  \A k \in Calls : Late(k) => pc[k] # "returned"

\* C8 amended: the runner of an Execute call issued after Shutdown has returned
\* is never taken by a worker; the call blocks for ever once it waits on a full
\* channel, and with room in the channel it sends and returns.
C8_LateExecute ==
  /\ [](\A k \in Calls : Late(k) =>
          /\ \A w \in Workers : \A n \in 1..Len(Started(w)) : Started(w)[n] # k
          /\ (pc[k] = "exec_send" /\ ~ Blocked(k)) => ENABLED ExecuteSend(k)
          /\ pc[k] = "exec_next" => ENABLED ExecuteReturn(k))
  /\ [][\A k \in Calls : (Late(k) /\ Blocked(k)) => Blocked(k)']_vars

\* C8 witness: an Execute call issued after Shutdown returned is blocked on a
\* full channel, and another one has returned.
C8_Witness ==
  /\ \E k \in Calls : Late(k) /\ Blocked(k)
  /\ \E k \in Calls : Late(k) /\ pc[k] = "returned"

\* Shutdown call k is the only Shutdown call issued
OnlyShutdown(k) == kind[k] = "Shutdown" /\ Shutdowns = {k}

\* the only Shutdown call issued so far was issued after N*Q+1 Execute calls
\* had returned
ShutdownAfterFill ==
  \E k \in Calls :
    OnlyShutdown(k) /\ Cardinality(retAt[k]) >= nThreads * threadQueueSize + 1

\* C9: a Shutdown call issued after N*Q+1 Execute calls have returned, and not
\* accompanied by another Shutdown call, eventually returns, whether or not the
\* runners still in the channels get run.
C9_ShutdownTerminates ==
  ShutdownAfterFill ~>
    (\/ \E k \in Calls : OnlyShutdown(k) /\ pc[k] = "returned"
     \/ Cardinality(Shutdowns) > 1)

\* C9 witness: the only Shutdown call, issued after N*Q+1 Execute calls had
\* returned, has returned while a runner is still in a channel.
C9_Witness ==
  \E k \in Calls :
    /\ OnlyShutdown(k)
    /\ Cardinality(retAt[k]) >= nThreads * threadQueueSize + 1
    /\ pc[k] = "returned"
    /\ \E w \in Workers : Len(channels[w]) > 0

\* Shutdown call k is the only Shutdown call, every runner submitted before it
\* had been run to completion when it was issued, and none was submitted after it
AfterAllCompleted(k) == OnlyShutdown(k) /\ k \in quiet /\ \A r \in Executes : r < k

\* C10: when Shutdown is called only after all M submitted runners have
\* completed, every runner has been run exactly once, Shutdown eventually
\* returns, and when it has returned every Execute call has returned and no
\* runner is left in a channel.
C10_AllRunThenShutdown ==
  /\ [](\A k \in Calls : AfterAllCompleted(k) =>
          /\ \A r \in Executes : RunCount(r) = 1
          /\ pc[k] = "returned" =>
               /\ \A r \in Executes : pc[r] = "returned"
               /\ \A w \in Workers : channels[w] = <<>>)
  /\ (\E k \in Calls : AfterAllCompleted(k)) ~>
       (\/ \E k \in Calls : AfterAllCompleted(k) /\ pc[k] = "returned"
        \/ ~ \E k \in Calls : AfterAllCompleted(k))

\* C10 witness: overlapping Execute calls, more of them than the channels hold
\* at once, all runners completed, then Shutdown called and returned.
C10_Witness ==
  \E k \in Calls :
    /\ AfterAllCompleted(k)
    /\ pc[k] = "returned"
    /\ Cardinality(Executes) > nThreads * threadQueueSize
    /\ ~ Sequential

\* C11: NewRoundRobinExecutor(nThreads, queueCapacity) returns the invalid
\* argument error whenever nThreads < 1 or queueCapacity < 1, also when only one
\* of the two is non-positive, and then there is no pool: no worker, no channel
\* of runners, no shutdown channel (the keys of e.shutdown are the workers), and
\* no call can be made on it.
C11_InvalidArguments ==
  (newErr # "pending" /\ (newArgs[1] < 1 \/ newArgs[2] < 1)) =>
     /\ newErr = "executor: invalid argument"
     /\ nThreads = 0
     /\ Workers = {}
     /\ DOMAIN channels = {}
     /\ DOMAIN wpc = {}
     /\ wg = 0
     /\ nextCall = 1

\* the constructor has refused a positive nThreads with a queue capacity of 0
C11_Witness ==
  /\ newErr = "executor: invalid argument"
  /\ newArgs[1] >= 1
  /\ newArgs[2] = 0

\* C12: for all N >= 1 and Q >= 1 the constructor succeeds, and right after it
\* returns (no call made yet) there are exactly the workers 1..N, each in its
\* select (Waiting) with an empty channel of capacity Q and a shutdown channel of
\* its own, the cursor is on worker 1 and the WaitGroup counts N.
C12_Construction ==
  (newErr # "pending" /\ newArgs[1] >= 1 /\ newArgs[2] >= 1) =>
     /\ newErr = "nil"
     /\ nextCall = 1 =>
          /\ Workers = 1..newArgs[1]
          /\ DOMAIN channels = Workers
          /\ DOMAIN wpc = Workers
          /\ \A w \in Workers : wpc[w] = "select" /\ channels[w] = <<>> /\ cur[w] = 0
          /\ threadQueueSize = newArgs[2]
          /\ ids = 1
          /\ wg = newArgs[1]
          /\ mutex = {}

\* the constructor has just returned a pool of more than one worker
C12_Witness ==
  /\ newErr = "nil"
  /\ nextCall = 1
  /\ nThreads = MaxThreads
  /\ nThreads > 1

\* C13: failure isolation.  When the function of a runner panics during Run, the
\* failure stays with that runner: the worker's loop goes on, the worker comes
\* back to its select (Waiting) for the runners queued behind, and the pool keeps
\* its nThreads workers.
C13_FailureIsolation ==
  [][\A w \in Workers :
       (wpc[w] = "run" /\ cur[w] \in panics /\ <<wpc[w], crashed>>' # <<wpc[w], crashed>>) =>
          /\ wpc'[w] = "select"
          /\ ~ crashed'
          /\ Cardinality({v \in Workers : wpc'[v] \in {"select", "run"}}) = nThreads]_vars

\* C14: a publish from the worker never blocks.  A Task or Callable made by
\* NewTask / NewCallable whose function publishes one value can always take its
\* next step, the publish and then the return of Run, whether or not anybody
\* receives from its channel.
C14_PublishNeverBlocks ==
  \A r \in Runners :
    (frame[r].pc = "running" /\ made[r].do.n = 1) =>
       /\ frame[r].sent = 0 => ENABLED Publish(r)
       /\ frame[r].sent = 1 => ENABLED RunReturn(r)

\* Run has returned for a runner that published its one value, and nothing has
\* been received from its channel
C14_Witness ==
  \E r \in Runners :
    /\ frame[r].pc = "done"
    /\ made[r].do.n = 1
    /\ got[r] = <<>>
    /\ chans[handle[r]].buf = <<made[r].do.v>>

\* the invocations of the function of runner r
Invocations(r) == SelectSeq(doLog, LAMBDA c : c.runner = r)

\* C15: for a Task built by NewTask(do, arg) whose function publishes a fixed
\* value v, Run invokes do exactly once, with the stored arg and the Task's own
\* channel, and once Run has returned the first value received from the handle
\* NewTask returned is v.
C15_TaskPublishes ==
  (frame["Task"].pc = "done" /\ made["Task"].do.n >= 1) =>
     /\ Invocations("Task") =
          <<[runner |-> "Task", arg |-> made["Task"].arg, ch |-> handle["Task"]]>>
     /\ IF got["Task"] # <<>>
          THEN got["Task"][1] = made["Task"].do.v
          ELSE Head(chans[handle["Task"]].buf) = made["Task"].do.v

\* the Task was made after the Callable, its Run has returned, and a value has
\* been received from its handle
C15_Witness ==
  /\ frame["Task"].pc = "done"
  /\ handle["Task"] > handle["Callable"]
  /\ handle["Callable"] > 0
  /\ got["Task"] # <<>>

\* the name of the flag a command line element gives, in any form the flag package
\* accepts (-name, --name, -name=value, --name=value); <<>> for other elements
FlagNamed(element) ==
  IF Len(element) < 2 \/ element[1] # "-" THEN <<>>
  ELSE LET text == SubSeq(element, IF element[2] = "-" THEN 3 ELSE 2, Len(element))
       IN  IF EqualsAt(text) = 0 THEN text ELSE SubSeq(text, 1, EqualsAt(text) - 1)

\* the flag name was passed on the command line
Passed(name) == \E i \in 2..Len(osArgs) : FlagNamed(osArgs[i]) = name

\* the node at a path of the loaded JSON, "missing" when there is none
RECURSIVE NodeAt(_, _)
NodeAt(content, path) ==
  IF Head(path) \notin DOMAIN content THEN [type |-> "missing"]
  ELSE IF Len(path) = 1 THEN content[Head(path)]
  ELSE IF content[Head(path)].type = "object" THEN NodeAt(content[Head(path)].m, Tail(path))
  ELSE [type |-> "missing"]

\* C16: Config.Get(key) resolves the sources in a fixed precedence: the
\* environment variable asEnv(key) when it is defined; otherwise the flag
\* asArg(key) when it is defined and was passed on the command line; otherwise
\* the node reached by following the dot-separated key through the loaded JSON.
\* A lower source is never returned when a higher one defines the key.
C16_Precedence ==
  lookup.done =>
    lookup.node =
      IF asEnv(lookup.key) \in DOMAIN environ THEN Str(environ[asEnv(lookup.key)])
      ELSE IF asArg(lookup.key) \in DOMAIN flagSet /\ Passed(asArg(lookup.key))
        THEN Str(flagSet[asArg(lookup.key)].value)
      ELSE IF NodeAt(config.content, split(lookup.key)) # [type |-> "missing"]
        THEN NodeAt(config.content, split(lookup.key))
      ELSE Nil

\* C17: a key no source provides is reported as not found.  When asEnv(key) is
\* not set in the environment, the flag asArg(key) is undefined or defined but
\* not passed on the command line, and the loaded JSON has no node at the key's
\* path, Get(key).String() returns "" with ErrNotFoundOrNullValue and
\* Get(key).StringOrElse(d) returns d.
C17_NotFound ==
  ( /\ lookup.done
    /\ asEnv(lookup.key) \notin DOMAIN environ
    /\ asArg(lookup.key) \notin DOMAIN flagSet \/ ~ Passed(asArg(lookup.key))
    /\ NodeAt(config.content, split(lookup.key)) = [type |-> "missing"] ) =>
     /\ lookup.s = <<>>
     /\ lookup.e = "ErrNotFoundOrNullValue"
     /\ lookup.orElse = <<"o">>

\* a key has been looked up whose flag is defined with a default but not passed,
\* whose environment variable is not set, whose path ends inside the loaded JSON
\* (its first element is there, the second is not), and it was not found
C17_Witness ==
  /\ lookup.done
  /\ lookup.key = <<"a", ".", "b">>
  /\ asEnv(lookup.key) \notin DOMAIN environ
  /\ <<"a", "_", "a">> \in DOMAIN flagSet
  /\ <<"a">> \in DOMAIN config.content
  /\ lookup.e = "ErrNotFoundOrNullValue"

\* the level of a method of the Logger in the order TRACE < DEBUG < INFO < WARN < ERROR
MethodLevel(method) ==
  CASE method = "Trace" -> TRACE
    [] method = "Debug" -> DEBUG
    [] method = "Info" -> INFO
    [] method = "Warn" -> WARN
    [] method = "Error" -> ERROR

\* the lines a Logger of level l must write for the calls made, in order
RECURSIVE Expected(_, _)
Expected(calls, l) ==
  IF calls = <<>> THEN <<>>
  ELSE (IF MethodLevel(Head(calls)) >= l THEN <<MethodLevel(Head(calls))>> ELSE <<>>)
         \o Expected(Tail(calls), l)

\* C18: level filtering.  A Logger made at level L writes a line for a call of
\* Trace, Debug, Info, Warn or Error exactly when the level of the method is at
\* least L in the order TRACE < DEBUG < INFO < WARN < ERROR, and a specifier that
\* is not one of the known names gives level INFO.
C18_LevelFilter ==
  logger.made =>
    /\ logOut = Expected(logCalls, logger.level)
    /\ logger.specifier \in {"Debug", "verbose", ""} => logger.level = INFO

\* a Logger made from a specifier that is not known has dropped a Debug call and
\* written an Info call
C18_Witness ==
  /\ logger.made
  /\ logger.specifier = "Debug"
  /\ logCalls = <<"Debug", "Info">>
  /\ logOut = <<INFO>>

\* C19: the pool lock is held across the blocking send.  While one Execute call
\* waits to send on a full channel it holds the mutex, no runner is enqueued, and
\* every other Execute call in progress stays in front of the mutex: none can
\* enqueue or return, whatever room the worker it would be given has.
C19_LockHeldWhileBlocked ==
  /\ [](\A k \in Submits : Blocked(k) =>
          /\ mutex = {k}
          /\ \A j \in Executes \ (Returned \cup {k}) :
               pc[j] = "exec_lock" /\ ~ ENABLED ExecuteLock(j))
  /\ [][\A k \in Submits : Blocked(k) =>
          /\ enqLog' = enqLog
          /\ \A j \in Submits \ {k} : pc'[j] = "returned" => pc[j] = "returned"]_vars

\* an Execute call waits to send on a full channel while another call waits for
\* the mutex, and the next worker of the ring, which that call would be given,
\* has room in its channel
C19_Witness ==
  \E k \in Submits : \E j \in Submits \ {k} :
    /\ Blocked(k)
    /\ pc[j] = "exec_lock"
    /\ RingNext(ids, nThreads) # id[k]
    /\ Len(channels[RingNext(ids, nThreads)]) < threadQueueSize

\* C20: a worker executes at most one runnable at a time.  From taking a runner
\* off its channel until that runner's Run returns, the worker takes no other
\* runner and does not take its stop signal; it does either only from its select
\* (Waiting).
C20_OneAtATime ==
  [][\A w \in Workers :
       /\ wpc[w] = "run" =>
            /\ cur[w] # 0
            /\ Len(channels'[w]) >= Len(channels[w])
            /\ \/ wpc'[w] = "run" /\ cur'[w] = cur[w] /\ ran'[w] = ran[w]
               \/ wpc'[w] = "select" /\ cur'[w] = 0 /\ ran'[w] = Append(ran[w], cur[w])
       /\ Len(channels'[w]) < Len(channels[w]) => wpc[w] = "select"
       /\ (wpc[w] # "exiting" /\ wpc'[w] = "exiting") => wpc[w] = "select"]_vars

\* a worker is running a runner while another runner waits in its channel and a
\* Shutdown call is trying to hand it the stop signal
C20_Witness ==
  \E w \in Workers : wpc[w] = "run" /\ Len(channels[w]) > 0 /\ StopPending(w)

\* worker w is in its loop: waiting in the select, or running a runner
Waiting(w) == wpc[w] \in {"select", "run"}

\* worker w has called wg.Done() and its goroutine has returned
Stopped(w) == wpc[w] = "stopped"

\* C21: a worker leaves its loop only from the select, by receiving the stop
\* signal a Shutdown call is sending it; it then calls wg.Done() exactly once and
\* returns; a stopped worker stays stopped and never again takes or runs a
\* runner; the WaitGroup counter changes only by such a Done, so it always
\* equals nThreads minus the number of stopped workers and is never negative.
C21_WorkerStateMachine ==
  /\ [](/\ wg = nThreads - Cardinality({w \in Workers : Stopped(w)})
        /\ wg >= 0)
  /\ [][/\ \A w \in Workers :
             /\ (Waiting(w) /\ ~ Waiting(w)') =>
                  /\ wpc[w] = "select"
                  /\ wpc'[w] = "exiting"
                  /\ wg' = wg
                  /\ \E k \in Shutdowns :
                       /\ pc[k] = "shut_send" /\ target[k] = w
                       /\ target'[k] # w
             /\ wpc[w] = "exiting" =>
                  /\ wpc'[w] \in {"exiting", "stopped"}
                  /\ cur'[w] = 0 /\ ran'[w] = ran[w]
                  /\ Len(channels'[w]) >= Len(channels[w])
             /\ (~ Stopped(w) /\ Stopped(w)') => (wpc[w] = "exiting" /\ wg' = wg - 1)
             /\ Stopped(w) =>
                  /\ Stopped(w)'
                  /\ cur'[w] = 0 /\ ran'[w] = ran[w]
                  /\ Len(channels'[w]) >= Len(channels[w])
        /\ wg' # wg => \E w \in Workers : ~ Stopped(w) /\ Stopped(w)']_vars

\* C21 witness: on a pool of two workers one worker has stopped, with a runner
\* left in its channel, while the other is still in its loop.
C21_Witness ==
  /\ nThreads = 2
  /\ wg = 1
  /\ \E w \in Workers : Stopped(w) /\ Len(channels[w]) > 0
  /\ \E w \in Workers : Waiting(w)

\* call k is between e.mutex.Lock() and the deferred e.mutex.Unlock()
InCritical(k) == pc[k] \in {"exec_send", "exec_next", "shut_send", "shut_wait"}

\* C22: at most one call is between Lock and Unlock of Execute or Shutdown at any
\* time, and it is the call holding the mutex; from the step in which a Shutdown
\* call takes the mutex until it returns, no runner is sent to a channel and the
\* cursor does not move.
C22_MutualExclusion ==
  /\ [](/\ Cardinality({k \in Calls : InCritical(k)}) <= 1
        /\ mutex = {k \in Calls : InCritical(k)})
  /\ [][(\E k \in Shutdowns : InCritical(k)) =>
          /\ ids' = ids
          /\ enqLog' = enqLog
          /\ \A w \in Workers : Len(channels'[w]) <= Len(channels[w])
          /\ \A e \in Executes : pc'[e] = pc[e]]_vars

\* C22 witness: a Shutdown call holds the mutex and is sending a stop signal while
\* an Execute call waits for the mutex, after another Execute call has returned.
C22_Witness ==
  /\ \E k \in Shutdowns : pc[k] = "shut_send" /\ mutex = {k}
  /\ \E e \in Executes : pc[e] = "exec_lock"
  /\ \E e \in Executes : pc[e] = "returned"

\* the id the cursor is on after e sends, counted from the ring as built
CursorAfter(e) == (e % nThreads) + 1

\* C23: the cursor e.ids is always on one of the ids 1..nThreads; whenever the
\* mutex is free it is on (E mod nThreads) + 1, E being the number of sends made
\* so far; an Execute call that has not completed its send has not moved the
\* cursor; and the cursor moves only from an id to the next one, from nThreads
\* to 1.
C23_CursorInvariant ==
  /\ [](/\ ids \in Workers
        /\ mutex = {} => ids = CursorAfter(Len(enqLog))
        /\ \A k \in Calls : pc[k] = "exec_send" =>
             /\ ids = id[k]
             /\ ids = CursorAfter(Len(enqLog)))
  /\ [][ids' # ids => ids' = (IF ids = nThreads THEN 1 ELSE ids + 1)]_vars

\* C23 witness: on a pool of two workers three sends have been made, the mutex
\* is free, and the cursor, having wrapped from 2 to 1, is on 2 again.
C23_Witness ==
  /\ nThreads = 2
  /\ Len(enqLog) = 3
  /\ mutex = {}
  /\ ids = 2

\* the step is one of call k: its issue, or a step inside Execute or Shutdown
StepOf(k) ==
  \/ kind'[k] # kind[k]
  \/ pc'[k] # pc[k]
  \/ target'[k] # target[k]
  \/ rest'[k] # rest[k]

\* how many sends of the log are sends of runner r
Sends(r) == Cardinality({n \in 1..Len(enqLog) : enqLog[n][1] = r})

\* C24: the workers, the channel of runners and the shutdown channel of each
\* id, and the capacity of the channels are those the constructor made, in every
\* state; a step of an Execute call changes the channels only at its send, which
\* appends its runner to the channel of one worker and leaves every other
\* channel as it was, and an Execute call sends once; a step of a Shutdown
\* call changes neither the cursor nor the content of any channel.
C24_Frame ==
  /\ [](/\ nThreads = newArgs[1]
        /\ threadQueueSize = newArgs[2]
        /\ DOMAIN channels = Workers
        /\ \A w \in Workers : Len(channels[w]) <= threadQueueSize
        /\ \A k \in Executes :
             Sends(k) = (IF pc[k] \in {"exec_next", "returned"} THEN 1 ELSE 0))
  /\ [][/\ nThreads' = nThreads
        /\ threadQueueSize' = threadQueueSize
        /\ DOMAIN channels' = DOMAIN channels
        /\ \A k \in Calls :
             /\ (StepOf(k) /\ kind'[k] = "Execute") =>
                  IF pc[k] = "exec_send"
                    THEN /\ id[k] \in Workers
                         /\ channels' = [channels EXCEPT ![id[k]] = Append(@, k)]
                    ELSE channels' = channels
             /\ (StepOf(k) /\ kind'[k] = "Shutdown") =>
                  /\ ids' = ids
                  /\ channels' = channels]_vars

\* C24 witness: on a pool of two workers a Shutdown call has sent its stop
\* signals while the runner of an earlier Execute call is in the channel of
\* worker 1, the channel of worker 2 is empty and the cursor is on worker 2.
C24_Witness ==
  /\ nThreads = 2
  /\ \E k \in Shutdowns : pc[k] \in {"shut_wait", "returned"}
  /\ Len(channels[1]) = 1
  /\ channels[2] = <<>>
  /\ ids = 2

\* k is a Shutdown call and another Shutdown call has returned; every Shutdown
\* call issued after a first one has returned is such a call from its issue on
SecondShutdown(k) ==
  /\ kind[k] = "Shutdown"
  /\ \E j \in Shutdowns : j # k /\ pc[j] = "returned"

\* C25: a Shutdown call that finds another Shutdown call returned never returns
\* and never gets past its first stop signal: once it has the mutex it waits
\* for ever on the shutdown channel of a worker that has exited, keeps the
\* mutex, and no other call that has been issued takes another step.
C25_SecondShutdownBlocks ==
  /\ [](\A k \in Calls : SecondShutdown(k) =>
          /\ pc[k] \in {"shut_lock", "shut_send"}
          /\ pc[k] = "shut_send" =>
               /\ mutex = {k}
               /\ wpc[target[k]] = "stopped"
               /\ rest[k] = Workers \ {target[k]}
               /\ ~ ENABLED ShutdownSend(k, target[k]))
  /\ [][\A k \in Calls : (SecondShutdown(k) /\ pc[k] = "shut_send") =>
          /\ pc'[k] = "shut_send" /\ target'[k] = target[k] /\ mutex' = {k}
          /\ \A j \in Calls \ {k} : pc[j] # "new" => pc'[j] = pc[j]]_vars

\* C25 witness: a Shutdown call returned, then an Execute call was issued, then
\* a second Shutdown call, which holds the mutex and waits on the shutdown
\* channel of a stopped worker while the Execute call waits for the mutex.
C25_Witness ==
  \E k \in Shutdowns : \E e \in late :
    /\ e < k
    /\ SecondShutdown(k)
    /\ pc[k] = "shut_send"
    /\ mutex = {k}
    /\ pc[e] = "exec_lock"

\* some Shutdown call has returned
ShutdownReturned == \E k \in Shutdowns : pc[k] = "returned"

\* runner r is in the channel of worker w
Queued(r, w) == \E n \in 1..Len(channels[w]) : channels[w][n] = r

\* runner r has been taken from a channel by some worker
Taken(r) == \E w \in Workers : \E n \in 1..Len(Started(w)) : Started(w)[n] = r

\* C26: once a Shutdown call has returned no worker takes or runs a runner any
\* more: every runner then in a channel has not been started, stays in that
\* channel at its place for ever, and so does every runner a later Execute call
\* sends; none of them is ever run, so nothing is written to its channel.
C26_NothingStartedAfterShutdown ==
  /\ [](ShutdownReturned =>
          /\ \A w \in Workers : cur[w] = 0 /\ ~ ENABLED WorkerReceive(w)
          /\ \A w \in Workers : \A r \in Calls : Queued(r, w) => ~ Taken(r)
          /\ \A e \in late : ~ Taken(e))
  /\ [][ShutdownReturned =>
          /\ cur' = cur /\ ran' = ran /\ wpc' = wpc
          /\ \A w \in Workers :
               /\ Len(channels'[w]) >= Len(channels[w])
               /\ SubSeq(channels'[w], 1, Len(channels[w])) = channels[w]]_vars

\* C26 witness: Shutdown has returned on a pool whose channels hold a runner
\* that was sent before Shutdown was called and a runner sent by an Execute call
\* issued after Shutdown returned; neither has been started.
C26_Witness ==
  /\ ShutdownReturned
  /\ \E k \in Shutdowns : \E r \in retAt[k] : \E w \in Workers : Queued(r, w)
  /\ \E e \in late : pc[e] = "returned" /\ \E w \in Workers : Queued(e, w)

\* the runners worker w holds: those it has run, the one it is running, and
\* those waiting in its channel, oldest first
Held(w) == Started(w) \o channels[w]

\* at how many places of the pool runner r is
Places(r) ==
  Cardinality(UNION {{<<w, n>> : n \in {m \in 1..Len(Held(w)) : Held(w)[m] = r}} :
                       w \in Workers})

\* C27: every runner is at one place of the pool from its send on, with the
\* worker it was sent to, and is run at most once; a runner leaves a channel
\* only by being taken by the worker of that channel, and a runner a worker is
\* running is next in that worker's list of completed runners.
C27_NoDuplicationNoStealing ==
  /\ [](\A r \in Calls :
          /\ RunCount(r) <= 1
          /\ Places(r) = (IF kind[r] = "Execute" THEN Sends(r) ELSE 0)
          /\ \A w \in Workers :
               (\E n \in 1..Len(Held(w)) : Held(w)[n] = r) =>
                  \E n \in 1..Len(enqLog) : enqLog[n] = <<r, w>>)
  /\ [][\A w \in Workers : \A r \in Calls :
          /\ (Queued(r, w) /\ ~ Queued(r, w)') => (cur[w] = 0 /\ cur'[w] = r)
          /\ (cur[w] = r /\ cur'[w] # r) => ran'[w] = Append(ran[w], r)]_vars

\* C27 witness: a worker is idle with an empty channel while a runner waits in
\* the channel of another worker that is busy running one.
C27_Witness ==
  \E w \in Workers : \E v \in Workers :
    /\ wpc[w] = "select" /\ channels[w] = <<>>
    /\ wpc[v] = "run" /\ Len(channels[v]) > 0

\* every Execute call issued so far has returned and its runner has been run
AllDone == \A k \in Executes : pc[k] = "returned" /\ RunCount(k) = 1

\* C28: when Shutdown is never called, every runner's Run returns and Execute
\* is called from outside the pool, then under fair scheduling every Execute
\* call returns and its runner is run: whatever calls have been issued, a
\* state is reached in which all of them have returned and all their runners
\* have been run, for every number of workers and every channel capacity.
C28_Progress == []<>AllDone

\* C28 witness: overlapping Execute calls, more of them than the channels of the
\* pool hold, have all returned and all their runners have been run.
C28_Witness ==
  /\ Executes = Calls
  /\ AllDone
  /\ overlap
  /\ nThreads * threadQueueSize < MaxCalls

\* call k is a Shutdown call made from inside the Run of a runner of the pool
Inside(k) == kind[k] = "Shutdown" /\ caller[k] # 0

\* C29: a Shutdown call made from inside a runner that one of the pool's workers
\* is running never returns: that worker stays inside Run, where it cannot
\* receive its stop signal, so the call never gets past the stop signals; once
\* it holds the mutex it keeps it, and no other call that has been issued takes
\* another step.
C29_ShutdownInsideRunner ==
  /\ [](\A k \in Calls : Inside(k) =>
          /\ pc[k] \in {"shut_lock", "shut_send"}
          /\ wpc[caller[k]] = "run"
          /\ ~ ENABLED WorkerRun(caller[k])
          /\ \A j \in Calls : ~ ENABLED ShutdownSend(j, caller[k])
          /\ pc[k] = "shut_send" => mutex = {k})
  /\ [][\A k \in Calls : (Inside(k) /\ pc[k] = "shut_send") =>
          /\ pc'[k] = "shut_send"
          /\ mutex' = {k}
          /\ \A j \in Calls \ {k} : pc[j] # "new" => pc'[j] = pc[j]]_vars

\* C29 witness: on a pool of two workers a runner has called Shutdown from its
\* Run; the call holds the mutex, has stopped the other worker and waits on the
\* shutdown channel of the worker running it, while an Execute call issued
\* after it waits for the mutex.
C29_Witness ==
  \E k \in Calls : \E e \in Executes :
    /\ Inside(k)
    /\ nThreads = 2
    /\ pc[k] = "shut_send" /\ target[k] = caller[k] /\ rest[k] = {}
    /\ mutex = {k}
    /\ e > k /\ pc[e] = "exec_lock"

\* the node is a string that denotes a negative integer
DenotesNegative(node) ==
  /\ node # Nil
  /\ node.type = "string"
  /\ ParseInt(node.v).e = "nil"
  /\ ParseInt(node.v).v < 0

\* C30: Uint and UintOrElse return only the unsigned integer the node denotes:
\* a value Uint returns without error, and a value UintOrElse returns that is
\* not the default, is the non-negative integer the node's string denotes; for
\* a node denoting a negative integer Uint returns an error and UintOrElse the
\* default, never 2^w - n.
C30_UintNeverWraps ==
  lookup.done =>
    /\ lookup.e = "nil" =>
         /\ ParseInt(lookup.node.v).v >= 0
         /\ lookup.u = [wraps |-> 0, v |-> ParseInt(lookup.node.v).v]
    /\ lookup.orElse.wraps = 0
    /\ DenotesNegative(lookup.node) =>
         /\ lookup.e # "nil"
         /\ lookup.orElse = [wraps |-> 0, v |-> lookup.value]

TypeOK ==
  /\ nThreads \in 1..MaxThreads
  /\ threadQueueSize \in 1..MaxQueueSize
  /\ mutex \subseteq Calls
  /\ quiet \subseteq Shutdowns
  /\ late \subseteq Executes
  /\ overlap \in BOOLEAN
  /\ ids \in Workers
  /\ wg \in 0..nThreads
  /\ \A w \in Workers : wpc[w] \in {"select", "run", "exiting", "stopped"}
  /\ \A k \in Calls : pc[k] \in {"new", "exec_lock", "exec_send", "exec_next",
                                 "shut_lock", "shut_send", "shut_wait", "returned"}
====
